---- MODULE Spec2Model ----
(***************************************************************************)
(* CSV ingestion and product normalisation of the catalogue importer       *)
(* (src/services/geminiService.ts).  Strings are sequences of one-character*)
(* strings; Chars turns a TLA+ string literal into that representation.    *)
(***************************************************************************)
EXTENDS Integers, Sequences, FiniteSets, TLC

VARIABLES
  text,          \* the input text
  pc,            \* the control position of the running call
  i, inQuotes, currentField, currentRow,   \* locals of parseCSVRows
  rows,          \* the rows parseCSVRows has built
  src,           \* the well-formed source the text was written from, if any
  now,           \* the wall clock, Date.now(), in milliseconds
  index,         \* parseProductCSV: the index of the next data row to map
  mapped,        \* parseProductCSV: the records data.map has built
  out,           \* the outcomes of the calls of parseProductCSV so far
  status,        \* the host: the GenerationStatus it shows
  productDb,     \* the host: the product list it holds
  patternRef,    \* the studio: a reference image is selected
  refinementPrompt,  \* the studio: the text of the refinement directive
  result,        \* the studio: the artifact on show, if any
  visions,       \* the studio: the artifacts synthesized so far, newest first
  pending,       \* the studio: the calls of startProduction awaiting their image
  calls          \* the studio: the number of calls of startProduction so far

scanVars == <<i, inQuotes, currentField, currentRow>>
normVars == <<now, index, mapped, out>>
studioVars == <<patternRef, refinementPrompt, result, visions, pending, calls>>
hostVars == <<status, productDb, studioVars>>
vars == <<text, pc, i, inQuotes, currentField, currentRow, rows, src, now,
          index, mapped, out, status, productDb, patternRef, refinementPrompt,
          result, visions, pending, calls>>

(***************************************************************************)
(* Bounds of the model.                                                    *)
(***************************************************************************)
\* longest free-form input text handed to the tokenizer
MaxLen == 5
\* longest content of the quoted field of a well-formed input
MaxContentLen == 3
\* most data lines of a catalogue file
MaxDataLines == 2
\* latest reading of the wall clock, in milliseconds
MaxClock == 1500
\* most files uploaded one after another
MaxUploads == 2
\* most calls of startProduction
MaxCalls == 3

(***************************************************************************)
(* Strings.                                                                *)
(***************************************************************************)
Chars(s) == [k \in 1..Len(s) |-> SubSeq(s, k, k)]

\* the value of text[i + 1] past the end of the string
Undefined == "undefined"

\* the characters String.prototype.trim removes (those the inputs can hold)
WhiteSpace == {" ", "\t", "\n", "\r"}

RECURSIVE TrimStart(_)
TrimStart(s) ==
  IF s # <<>> /\ Head(s) \in WhiteSpace THEN TrimStart(Tail(s)) ELSE s

RECURSIVE TrimEnd(_)
TrimEnd(s) ==
  IF s # <<>> /\ s[Len(s)] \in WhiteSpace
  THEN TrimEnd(SubSeq(s, 1, Len(s) - 1))
  ELSE s

Trim(s) == TrimEnd(TrimStart(s))

\* the blank test without the trim
SomeNonEmpty(row) == \E k \in 1..Len(row) : Len(row[k]) > 0

\* currentRow.some(field => field.trim().length > 0)
SomeNonBlank(row) == \E k \in 1..Len(row) : Len(Trim(row[k])) > 0

(***************************************************************************)
(* parseCSVRows: one iteration of the scan loop, on the loop's locals.     *)
(* i is the zero-based index of the code, so text[i] is t[s.i + 1].        *)
(***************************************************************************)
ScanStart ==
  [i |-> 0, inQuotes |-> FALSE, currentField |-> <<>>, currentRow |-> <<>>,
   rows |-> <<>>]

\* the row terminator branch: push the field, keep the row if it is not blank
EndRow(s) ==
  LET row == Append(s.currentRow, s.currentField)
  IN  [s EXCEPT !.rows = IF SomeNonBlank(row) THEN Append(@, row) ELSE @,
                !.currentRow = <<>>,
                !.currentField = <<>>]

\* a doubled quote is read as one quote and the scan skips its second half
InQuotesNoSkip(s, char, nextChar) ==
  IF char = "\"" /\ nextChar = "\""
  THEN [s EXCEPT !.currentField = Append(@, "\"")]
  ELSE IF char = "\""
       THEN [s EXCEPT !.inQuotes = FALSE]
       ELSE [s EXCEPT !.currentField = Append(@, char)]

\* the branch of the loop body taken in quoted mode
InQuotesBranch(s, char, nextChar) ==
  IF char = "\"" /\ nextChar = "\""
  THEN [s EXCEPT !.currentField = Append(@, "\""), !.i = @ + 1]
  ELSE IF char = "\""
       THEN [s EXCEPT !.inQuotes = FALSE]
       ELSE [s EXCEPT !.currentField = Append(@, char)]

\* the branch of the loop body taken outside quotes, with its variations:
\* rescan (the opening quote is scanned again in quoted mode), keepField (the
\* comma does not reset the field), lfOnly (only \n ends a row)
OutsideVariant(s, char, nextChar, rescan, keepField, lfOnly) ==
  IF char = "\""
  THEN [s EXCEPT !.inQuotes = TRUE, !.i = IF rescan THEN @ - 1 ELSE @]
  ELSE IF char = ","
       THEN [s EXCEPT !.currentRow = Append(@, s.currentField),
                      !.currentField = IF keepField THEN @ ELSE <<>>]
       ELSE IF (char = "\r" /\ ~lfOnly) \/ char = "\n"
            THEN LET e == EndRow(s)
                 IN  IF char = "\r" /\ nextChar = "\n"
                     THEN [e EXCEPT !.i = @ + 1]
                     ELSE e
            ELSE [s EXCEPT !.currentField = Append(@, char)]

OutsideRescan(s, char, nextChar) ==
  OutsideVariant(s, char, nextChar, TRUE, FALSE, FALSE)

OutsideKeepField(s, char, nextChar) ==
  OutsideVariant(s, char, nextChar, FALSE, TRUE, FALSE)

OutsideLfOnly(s, char, nextChar) ==
  OutsideVariant(s, char, nextChar, FALSE, FALSE, TRUE)

OutsideBranch(s, char, nextChar) ==
  IF char = "\""
  THEN [s EXCEPT !.inQuotes = TRUE]
  ELSE IF char = ","
       THEN [s EXCEPT !.currentRow = Append(@, s.currentField),
                      !.currentField = <<>>]
       ELSE IF char = "\r" \/ char = "\n"
            THEN LET e == EndRow(s)
                 IN  IF char = "\r" /\ nextChar = "\n"
                     THEN [e EXCEPT !.i = @ + 1]
                     ELSE e
            ELSE [s EXCEPT !.currentField = Append(@, char)]

\* the body of the for loop followed by its i++
ScanIter(t, s) ==
  LET char == t[s.i + 1]
      nextChar == IF s.i + 2 <= Len(t) THEN t[s.i + 2] ELSE Undefined
      body == IF s.inQuotes
              THEN InQuotesBranch(s, char, nextChar)
              ELSE OutsideBranch(s, char, nextChar)
  IN  [body EXCEPT !.i = @ + 1]

\* a flush that looks at the pending field only
ScanFlushFieldOnly(s) ==
  IF s.currentField # <<>>
  THEN EndRow(s)
  ELSE s

\* the code after the loop: flush the pending field and row
ScanFlush(s) ==
  IF Len(s.currentRow) > 0 \/ s.currentField # <<>>
  THEN EndRow(s)
  ELSE s

RECURSIVE ScanAll(_, _)
ScanAll(t, s) == IF s.i < Len(t) THEN ScanAll(t, ScanIter(t, s)) ELSE s

parseCSVRows(t) == ScanFlush(ScanAll(t, ScanStart)).rows

(***************************************************************************)
(* String operations of the normalizer.                                    *)
(***************************************************************************)
\* s.startsWith(p)
StartsWith(s, p) == Len(p) <= Len(s) /\ SubSeq(s, 1, Len(p)) = p

\* the substring p occurs in s at position k
OccursAt(s, p, k) == k >= 1 /\ k + Len(p) - 1 <= Len(s) /\ SubSeq(s, k, k + Len(p) - 1) = p

\* s.includes(p)
Includes(s, p) == \E k \in 1..(Len(s) + 1) : OccursAt(s, p, k)

\* s.split(/[...]/) for a class of single characters: the pieces between them
RECURSIVE SplitOn(_, _)
SplitOn(s, seps) ==
  IF \A k \in 1..Len(s) : s[k] \notin seps THEN <<s>>
  ELSE LET k == CHOOSE j \in 1..Len(s) :
                  s[j] \in seps /\ \A h \in 1..(j - 1) : s[h] \notin seps
       IN  <<SubSeq(s, 1, k - 1)>> \o SplitOn(SubSeq(s, k + 1, Len(s)), seps)

UpperCase == Chars("ABCDEFGHIJKLMNOPQRSTUVWXYZ")
LowerCase == Chars("abcdefghijklmnopqrstuvwxyz")
Digits == {"0", "1", "2", "3", "4", "5", "6", "7", "8", "9"}

UpperSet == {UpperCase[k] : k \in 1..Len(UpperCase)}
LowerSet == {LowerCase[k] : k \in 1..Len(LowerCase)}

IsUpper(c) == c \in UpperSet
IsLower(c) == c \in LowerSet

LowerOf == [c \in UpperSet |-> LowerCase[CHOOSE k \in 1..Len(UpperCase) : UpperCase[k] = c]]
UpperOf == [c \in LowerSet |-> UpperCase[CHOOSE k \in 1..Len(LowerCase) : LowerCase[k] = c]]

LowerChar(c) == IF IsUpper(c) THEN LowerOf[c] ELSE c
UpperChar(c) == IF IsLower(c) THEN UpperOf[c] ELSE c

\* s.toLowerCase(), s.toUpperCase()
ToLowerCase(s) == [k \in 1..Len(s) |-> LowerChar(s[k])]
ToUpperCase(s) == [k \in 1..Len(s) |-> UpperChar(s[k])]

IsAlnumLower(c) == IsLower(c) \/ c \in Digits

\* the normalisation without toLowerCase()
NormalizeNoLowerCase(h) == SelectSeq(h, IsAlnumLower)

\* h.toLowerCase().replace(/[^a-z0-9]/g, '')
NormalizeHeader(h) == SelectSeq(ToLowerCase(h), IsAlnumLower)

(***************************************************************************)
(* JSON.parse on the texts the inputs hold: strings without escapes,       *)
(* integers, true, false, null, arrays and objects.  A value is a record   *)
(* tagged by t; a parse result is [ok, v, p] with p the next position.     *)
(***************************************************************************)
JsonSpace == {" ", "\t", "\n", "\r"}

JsonFail == [ok |-> FALSE, v |-> [t |-> "null"], p |-> 0]

RECURSIVE SkipSpace(_, _)
SkipSpace(t, p) ==
  IF p <= Len(t) /\ t[p] \in JsonSpace THEN SkipSpace(t, p + 1) ELSE p

\* the position of the quote closing a string whose content starts at p, or 0
RECURSIVE StringEnd(_, _)
StringEnd(t, p) ==
  IF p > Len(t) \/ t[p] = "\\" \/ t[p] = "\n" \/ t[p] = "\r" \/ t[p] = "\t" THEN 0
  ELSE IF t[p] = "\"" THEN p
       ELSE StringEnd(t, p + 1)

\* the position after the digits starting at p
RECURSIVE DigitsEnd(_, _)
DigitsEnd(t, p) ==
  IF p <= Len(t) /\ t[p] \in Digits THEN DigitsEnd(t, p + 1) ELSE p

JsonString(t, p) ==
  LET e == StringEnd(t, p + 1)
  IN  IF e = 0 THEN JsonFail
      ELSE [ok |-> TRUE, v |-> [t |-> "string", s |-> SubSeq(t, p + 1, e - 1)],
            p |-> e + 1]

JsonNumber(t, p) ==
  LET d == IF t[p] = "-" THEN p + 1 ELSE p
      e == DigitsEnd(t, d)
  IN  IF e = d \/ (t[d] = "0" /\ e > d + 1) THEN JsonFail
      ELSE [ok |-> TRUE, v |-> [t |-> "number", s |-> SubSeq(t, p, e - 1)], p |-> e]

JsonLiteral(t, p) ==
  IF OccursAt(t, Chars("true"), p)
  THEN [ok |-> TRUE, v |-> [t |-> "bool", b |-> TRUE], p |-> p + 4]
  ELSE IF OccursAt(t, Chars("false"), p)
       THEN [ok |-> TRUE, v |-> [t |-> "bool", b |-> FALSE], p |-> p + 5]
       ELSE IF OccursAt(t, Chars("null"), p)
            THEN [ok |-> TRUE, v |-> [t |-> "null"], p |-> p + 4]
            ELSE JsonFail

JsonDone(v, p) == [ok |-> TRUE, v |-> v, p |-> p]

RECURSIVE JsonValue(_, _), JsonValueAt(_, _), JsonElements(_, _, _),
          JsonElement(_, _, _), JsonElementEnd(_, _, _), JsonMembers(_, _, _),
          JsonMemberKey(_, _, _), JsonMemberColon(_, _, _, _),
          JsonMemberValue(_, _, _, _), JsonMemberEnd(_, _, _)

\* the value that starts at p0, after white space
JsonValue(t, p0) == JsonValueAt(t, SkipSpace(t, p0))

JsonValueAt(t, p) ==
  IF p > Len(t) THEN JsonFail
  ELSE IF t[p] = "\"" THEN JsonString(t, p)
  ELSE IF t[p] = "-" \/ t[p] \in Digits THEN JsonNumber(t, p)
  ELSE IF t[p] = "[" THEN JsonElements(t, SkipSpace(t, p + 1), <<>>)
  ELSE IF t[p] = "{" THEN JsonMembers(t, SkipSpace(t, p + 1), <<>>)
  ELSE JsonLiteral(t, p)

\* the elements of an array from q on, after those in acc
JsonElements(t, q, acc) ==
  IF acc = <<>> /\ q <= Len(t) /\ t[q] = "]"
  THEN JsonDone([t |-> "array", items |-> <<>>], q + 1)
  ELSE JsonElement(t, acc, JsonValue(t, q))

JsonElement(t, acc, r) ==
  IF ~r.ok THEN JsonFail
  ELSE JsonElementEnd(t, Append(acc, r.v), SkipSpace(t, r.p))

JsonElementEnd(t, acc, q) ==
  IF q > Len(t) THEN JsonFail
  ELSE IF t[q] = "]" THEN JsonDone([t |-> "array", items |-> acc], q + 1)
  ELSE IF t[q] = "," THEN JsonElement(t, acc, JsonValue(t, q + 1))
  ELSE JsonFail

\* the members of an object from q on, after those in acc
JsonMembers(t, q, acc) ==
  IF acc = <<>> /\ q <= Len(t) /\ t[q] = "}"
  THEN JsonDone([t |-> "object", members |-> <<>>], q + 1)
  ELSE IF q <= Len(t) /\ t[q] = "\"" THEN JsonMemberKey(t, acc, JsonString(t, q))
  ELSE JsonFail

JsonMemberKey(t, acc, k) ==
  IF ~k.ok THEN JsonFail
  ELSE JsonMemberColon(t, acc, k.v.s, SkipSpace(t, k.p))

JsonMemberColon(t, acc, key, c) ==
  IF c <= Len(t) /\ t[c] = ":"
  THEN JsonMemberValue(t, acc, key, JsonValue(t, c + 1))
  ELSE JsonFail

JsonMemberValue(t, acc, key, r) ==
  IF ~r.ok THEN JsonFail
  ELSE JsonMemberEnd(t, Append(acc, [key |-> key, value |-> r.v]), SkipSpace(t, r.p))

JsonMemberEnd(t, acc, q) ==
  IF q > Len(t) THEN JsonFail
  ELSE IF t[q] = "}" THEN JsonDone([t |-> "object", members |-> acc], q + 1)
  ELSE IF t[q] = "," /\ SkipSpace(t, q + 1) <= Len(t) /\ t[SkipSpace(t, q + 1)] = "\""
       THEN JsonMembers(t, SkipSpace(t, q + 1), acc)
       ELSE JsonFail

\* the parse result r of the whole text t: nothing but white space may follow
JsonWhole(t, r) == IF r.ok /\ SkipSpace(t, r.p) = Len(t) + 1 THEN r ELSE JsonFail

\* JSON.parse(t): ok is FALSE where it throws a SyntaxError
JsonParse(t) == JsonWhole(t, JsonValue(t, 1))

(***************************************************************************)
(* Image references.                                                       *)
(***************************************************************************)
HexChars == Digits \cup {"a", "b", "c", "d", "e", "f", "A", "B", "C", "D", "E", "F"}

\* the position after the longest run of characters of S that starts at p
RECURSIVE RunEnd(_, _, _)
RunEnd(s, p, S) == IF p <= Len(s) /\ s[p] \in S THEN RunEnd(s, p + 1, S) ELSE p

ImageExtensions == <<"jpg", "png", "webp", "jpeg">>

\* the extensions of (jpg|png|webp|jpeg), case-insensitive, that match at p
ExtensionsAt(s, p) ==
  {x \in 1..Len(ImageExtensions) :
     /\ p + Len(ImageExtensions[x]) - 1 <= Len(s)
     /\ p >= 1
     /\ ToLowerCase(SubSeq(s, p, p + Len(ImageExtensions[x]) - 1))
          = Chars(ImageExtensions[x])}

\* (jpg|png|webp|jpeg) at p, given the alternatives xs that match there: the
\* position after the first alternative, or 0
ExtensionEnd(p, xs) ==
  IF xs = {} THEN 0
  ELSE p + Len(ImageExtensions[CHOOSE y \in xs : \A z \in xs : y <= z])

\* [a-f0-9]{6,}\.(jpg|png|webp|jpeg) from b on, the run of hex digits ending
\* before e2
SecondRunEnd(s, b, e2) ==
  IF e2 - b >= 6 /\ e2 <= Len(s) /\ s[e2] = "."
  THEN ExtensionEnd(e2 + 1, ExtensionsAt(s, e2 + 1))
  ELSE 0

\* [a-f0-9]{6,}_ from k on, the run of hex digits ending before e1, and the rest
FirstRunEnd(s, k, e1) ==
  IF e1 - k >= 6 /\ e1 <= Len(s) /\ s[e1] = "_"
  THEN SecondRunEnd(s, e1 + 1, RunEnd(s, e1 + 1, HexChars))
  ELSE 0

\* /[a-f0-9]{6,}_[a-f0-9]{6,}\.(jpg|png|webp|jpeg)/i matches at k: the position
\* after the match, or 0
HashMatchEnd(s, k) == FirstRunEnd(s, k, RunEnd(s, k, HexChars))

NoId == [found |-> FALSE, id |-> <<>>]

\* the match at the leftmost position that has one, ends[p] being the position
\* after the match at p, or 0
LeftmostMatch(s, ends) ==
  LET k == CHOOSE j \in 1..Len(ends) : ends[j] # 0 /\ \A h \in 1..(j - 1) : ends[h] = 0
  IN  SubSeq(s, k, ends[k] - 1)

\* some position has a match
Matches(ends) == \E k \in 1..Len(ends) : ends[k] # 0

HashMatchOf(s, ends) ==
  IF Matches(ends) THEN [found |-> TRUE, id |-> LeftmostMatch(s, ends)] ELSE NoId

\* clean.match(...): the leftmost match
HashMatch(s) == HashMatchOf(s, [k \in 1..Len(s) |-> HashMatchEnd(s, k)])

Mv2 == Chars("~mv2")

\* the positions of the parts that include '~mv2'
Mv2Parts(parts) == {k \in 1..Len(parts) : Includes(parts[k], Mv2)}

\* parts.find(p => p.includes('~mv2'))
IdPart(parts) ==
  parts[CHOOSE k \in Mv2Parts(parts) : \A h \in Mv2Parts(parts) : k <= h]

\* the three cases of getWixImageId on the trimmed url and its parts
WixImageId(clean, parts) ==
  IF StartsWith(clean, Chars("wix:image")) /\ Mv2Parts(parts) # {}
  THEN [found |-> TRUE, id |-> SplitOn(IdPart(parts), {"#"})[1]]
  ELSE IF Includes(clean, Mv2)
       THEN [found |-> TRUE,
             id |-> SplitOn(SplitOn(parts[Len(parts)], {"?"})[1], {"#"})[1]]
       ELSE HashMatch(clean)

\* getWixImageId: found is FALSE where the code returns null
getWixImageId(url) ==
  IF url = <<>> THEN NoId ELSE WixImageId(Trim(url), SplitOn(Trim(url), {"/"}))

\* the trimmed url, a leading // left as it is
sanitizeTrimOnly(url) == Trim(url)

\* sanitizeUrl
sanitizeUrl(url) ==
  IF StartsWith(Trim(url), Chars("//")) THEN Chars("https:") \o Trim(url) ELSE Trim(url)

MediaBase == Chars("https://static.wixstatic.com/media/")
ThumbSuffix == Chars("/v1/fill/w_400,h_400,al_c,q_80/thumbnail.jpg")

\* a JSON value in a boolean context
Truthy(v) ==
  CASE v.t = "string" -> v.s # <<>>
    [] v.t = "number" -> v.s \notin {<<"0">>, <<"-", "0">>}
    [] v.t = "bool" -> v.b
    [] v.t = "null" -> FALSE
    [] OTHER -> TRUE

\* the positions of the members of an object that have the given key
MembersWith(first, key) ==
  {k \in 1..Len(first.members) : first.members[k].key = key}

\* first[key]: the last member with that key
Property(first, key) ==
  first.members[CHOOSE k \in MembersWith(first, key) :
                  \A h \in MembersWith(first, key) : h <= k].value

\* first[key] is a truthy value (a property of a string, a number, a boolean
\* or an array that is not there is undefined)
HasTruthy(first, key) ==
  /\ first.t = "object"
  /\ MembersWith(first, key) # {}
  /\ Truthy(Property(first, key))

ImageKeys == <<Chars("url"), Chars("src"), Chars("image"), Chars("id")>>

RECURSIVE FirstTruthy(_, _, _)
\* first.url || first.src || first.image || first.id || val, from key k on
FirstTruthy(first, k, val) ==
  IF k > Len(ImageKeys) THEN [t |-> "string", s |-> val]
  ELSE IF HasTruthy(first, ImageKeys[k]) THEN Property(first, ImageKeys[k])
       ELSE FirstTruthy(first, k + 1, val)

\* Array.isArray(parsed) ? parsed[0] : parsed
FirstOf(parsed) ==
  IF parsed.t = "array"
  THEN IF parsed.items = <<>> THEN [t |-> "undefined"] ELSE parsed.items[1]
  ELSE parsed

\* the try block: a SyntaxError of JSON.parse and the TypeError of reading a
\* property of undefined or null are caught and leave val as it was
TryStructured(val, parsed) ==
  IF ~parsed.ok \/ FirstOf(parsed.v).t \in {"undefined", "null"}
  THEN [t |-> "string", s |-> val]
  ELSE FirstTruthy(FirstOf(parsed.v), 1, val)

\* step 1 of transformImageUrl: the value of val after the try block, as a
\* JSON value (a string value where val is still a string)
StructuredValue(val) ==
  IF StartsWith(val, <<"[">>) \/ StartsWith(val, <<"{">>)
  THEN TryStructured(val, JsonParse(val))
  ELSE [t |-> "string", s |-> val]

\* step 3 with the full address derived from the id as well
UrlImageCanonical(sanitized, id) ==
  IF id.found /\ id.id # <<>>
  THEN [threw |-> FALSE, full |-> MediaBase \o id.id, thumb |-> MediaBase \o id.id \o ThumbSuffix]
  ELSE [threw |-> FALSE, full |-> sanitized, thumb |-> sanitized]

\* step 3: a web address, with the id found in it
UrlImage(sanitized, id) ==
  IF id.found /\ id.id # <<>>
  THEN [threw |-> FALSE, full |-> sanitized, thumb |-> MediaBase \o id.id \o ThumbSuffix]
  ELSE [threw |-> FALSE, full |-> sanitized, thumb |-> sanitized]

\* step 5 alone: the value as it is
RawImageAsIs(val, id) == [threw |-> FALSE, full |-> val, thumb |-> val]

\* steps 4 and 5: a raw id, or the value as it is
RawImage(val, id) ==
  IF id.found /\ id.id # <<>>
  THEN [threw |-> FALSE, full |-> MediaBase \o id.id,
        thumb |-> MediaBase \o id.id \o ThumbSuffix]
  ELSE [threw |-> FALSE, full |-> val, thumb |-> val]

\* steps 3 to 5 of transformImageUrl, on the trimmed first part of val
ResolveTrimmed(val) ==
  IF StartsWith(val, Chars("http")) \/ StartsWith(val, Chars("//"))
  THEN UrlImage(sanitizeUrl(val), getWixImageId(sanitizeUrl(val)))
  ELSE RawImage(val, getWixImageId(val))

\* steps 2 to 5 of transformImageUrl, on the string val has become
ResolveImage(val) == ResolveTrimmed(Trim(SplitOn(val, {";", "|", ","})[1]))

\* the value after the try block: val.split of a value that is not a string
\* is a TypeError, outside the try
AfterTry(v) ==
  IF v.t # "string"
  THEN [threw |-> TRUE, full |-> <<>>, thumb |-> <<>>]
  ELSE ResolveImage(v.s)

transformImageUrl(input) ==
  IF input = <<>> THEN [threw |-> FALSE, full |-> <<>>, thumb |-> <<>>]
  ELSE AfterTry(StructuredValue(Trim(input)))

(***************************************************************************)
(* extractSizeFromTitle.                                                   *)
(***************************************************************************)
\* \w of the regular expressions
IsWordChar(c) == IsUpper(c) \/ IsLower(c) \/ c \in Digits \/ c = "_"

\* \b between positions p - 1 and p of s
BoundaryAt(s, p) ==
  LET before == p >= 2 /\ p - 1 <= Len(s) /\ IsWordChar(s[p - 1])
      after == p >= 1 /\ p <= Len(s) /\ IsWordChar(s[p])
  IN  before # after

\* any two digits at p
WaistAtAnyTwoDigits(s, p) ==
  p >= 1 /\ p + 1 <= Len(s) /\ s[p] \in Digits /\ s[p + 1] \in Digits

\* (2[4-9]|3[0-9]|4[0-8]) at p
WaistAt(s, p) ==
  /\ p >= 1 /\ p + 1 <= Len(s)
  /\ \/ s[p] = "2" /\ s[p + 1] \in {"4", "5", "6", "7", "8", "9"}
     \/ s[p] = "3" /\ s[p + 1] \in Digits
     \/ s[p] = "4" /\ s[p + 1] \in {"0", "1", "2", "3", "4", "5", "6", "7", "8"}

\* /\b(2[4-9]|3[0-9]|4[0-8])([wW])?\b/ at p: the position after the match, or 0
WaistMatchEnd(s, p) ==
  IF ~(BoundaryAt(s, p) /\ WaistAt(s, p)) THEN 0
  ELSE IF p + 2 <= Len(s) /\ s[p + 2] \in {"w", "W"} /\ BoundaryAt(s, p + 3)
       THEN p + 3
       ELSE IF BoundaryAt(s, p + 2) THEN p + 2 ELSE 0

\* /\b(2[4-9]|3[0-9]|4[0-8])\/(2[4-9]|3[0-9]|4[0-8])\b/ at p
SlashMatchEnd(s, p) ==
  IF /\ BoundaryAt(s, p) /\ WaistAt(s, p)
     /\ p + 2 <= Len(s) /\ s[p + 2] = "/"
     /\ WaistAt(s, p + 3) /\ BoundaryAt(s, p + 5)
  THEN p + 5
  ELSE 0

LetterSizes == <<"XS", "S", "M", "L", "XL", "XXL", "XXXL", "2XL", "3XL">>

\* the alternatives of (XS|S|M|L|XL|XXL|XXXL|2XL|3XL), case-insensitive, that
\* match at p and end at a word boundary
LetterSizesAt(s, p) ==
  {x \in 1..Len(LetterSizes) :
     /\ p + Len(LetterSizes[x]) - 1 <= Len(s)
     /\ ToUpperCase(SubSeq(s, p, p + Len(LetterSizes[x]) - 1)) = Chars(LetterSizes[x])
     /\ BoundaryAt(s, p + Len(LetterSizes[x]))}

LetterMatchEnd(s, p) ==
  IF BoundaryAt(s, p) /\ LetterSizesAt(s, p) # {}
  THEN LET x == CHOOSE y \in LetterSizesAt(s, p) : \A z \in LetterSizesAt(s, p) : y <= z
       IN  p + Len(LetterSizes[x])
  ELSE 0

extractSizeFromTitle(title) ==
  LET waist == [p \in 1..Len(title) |-> WaistMatchEnd(title, p)]
      slash == [p \in 1..Len(title) |-> SlashMatchEnd(title, p)]
      letter == [p \in 1..Len(title) |-> LetterMatchEnd(title, p)]
  IN  IF title = <<>> THEN <<>>
      ELSE IF Matches(waist) THEN ToUpperCase(LeftmostMatch(title, waist))
      ELSE IF Matches(slash) THEN LeftmostMatch(title, slash)
      ELSE IF Matches(letter) THEN ToUpperCase(LeftmostMatch(title, letter))
      ELSE <<>>

(***************************************************************************)
(* new Date(rawDate).getTime() on the date cells the inputs hold: an ISO    *)
(* date YYYY-MM-DD is midnight UTC of that day, in milliseconds; a text     *)
(* that is no date is NaN.                                                  *)
(***************************************************************************)
NaN == [nan |-> TRUE, ms |-> 0]
Time(ms) == [nan |-> FALSE, ms |-> ms]

DecimalDigits == Chars("0123456789")

DigitValue(c) == CHOOSE d \in 0..9 : DecimalDigits[d + 1] = c

RECURSIVE Number(_)
\* the value of a string of digits
Number(ds) ==
  IF ds = <<>> THEN 0 ELSE 10 * Number(SubSeq(ds, 1, Len(ds) - 1)) + DigitValue(ds[Len(ds)])

IsLeap(y) == (y % 4 = 0 /\ y % 100 # 0) \/ y % 400 = 0

DaysInMonth(y, m) ==
  IF m = 2 THEN (IF IsLeap(y) THEN 29 ELSE 28)
  ELSE IF m \in {4, 6, 9, 11} THEN 30 ELSE 31

\* days from 1970-01-01 to the civil date y-m-d
DaysFromCivil(y, m, d) ==
  LET yy == IF m <= 2 THEN y - 1 ELSE y
      era == yy \div 400
      yoe == yy - era * 400
      mp == IF m > 2 THEN m - 3 ELSE m + 9
      doy == (153 * mp + 2) \div 5 + d - 1
      doe == yoe * 365 + yoe \div 4 - yoe \div 100 + doy
  IN  era * 146097 + doe - 719468

MsPerDay == 86400000

DateParse(raw) ==
  IF /\ Len(raw) = 10
     /\ raw[5] = "-" /\ raw[8] = "-"
     /\ \A k \in {1, 2, 3, 4, 6, 7, 9, 10} : raw[k] \in Digits
  THEN LET y == Number(SubSeq(raw, 1, 4))
           m == Number(SubSeq(raw, 6, 7))
           d == Number(SubSeq(raw, 9, 10))
       IN  IF m \in 1..12 /\ d >= 1 /\ d <= DaysInMonth(y, m)
           THEN Time(DaysFromCivil(y, m, d) * MsPerDay)
           ELSE NaN
  ELSE NaN

(***************************************************************************)
(* parseProductCSV: header resolution and the record of one data row.      *)
(***************************************************************************)
NameHeaders == <<"name", "title", "productname", "producttitle", "handle", "itemname">>
ImageHeaders ==
  <<"productimageurl", "productimage", "image", "images", "thumbnail",
    "mainimage", "picture", "url", "src", "img", "media", "photo", "gallery">>
HandleIdHeaders == <<"handleid", "id", "productid", "handle", "sku">>
DescriptionHeaders ==
  <<"description", "plaindescription", "productdescription", "content", "body",
    "excerpt", "shortdescription">>
PriceHeaders == <<"price", "value", "pricevalue", "amount", "regularprice", "saleprice", "cost">>
SkuHeaders == <<"sku", "code", "reference", "partnumber">>
CollectionHeaders == <<"collection", "category", "type", "categories", "tag">>
SizeHeaders == <<"size", "option1", "variantinventorysize", "variantsize", "optionsize">>
DateHeaders == <<"date", "created", "createdat", "dateuploaded">>

\* rawHeaders.map(h => h.toLowerCase().replace(/[^a-z0-9]/g, ''))
NormalizedHeaders(rawHeaders) ==
  [k \in 1..Len(rawHeaders) |-> NormalizeHeader(rawHeaders[k])]

\* normalizedHeaders.indexOf(t): zero-based, -1 if absent
IndexOf(headers, t) ==
  IF \E k \in 1..Len(headers) : headers[k] = t
  THEN (CHOOSE k \in 1..Len(headers) :
          headers[k] = t /\ \A h \in 1..(k - 1) : headers[h] # t) - 1
  ELSE -1

\* the result of find(...) when no target is among the headers (undefined)
NoColumn == -1

AllHeaders ==
  <<NameHeaders, ImageHeaders, HandleIdHeaders, DescriptionHeaders, PriceHeaders,
    SkuHeaders, CollectionHeaders, SizeHeaders, DateHeaders>>

\* p.toLowerCase().replace(/[^a-z0-9]/g, '') of every accepted spelling
TargetOf ==
  [p \in UNION {{AllHeaders[v][k] : k \in 1..Len(AllHeaders[v])} : v \in 1..Len(AllHeaders)}
     |-> NormalizeHeader(Chars(p))]

\* findColIdx: the header index of the first target that is among the headers
findColIdx(normalizedHeaders, possible) ==
  LET targets == [k \in 1..Len(possible) |-> TargetOf[possible[k]]]
      hits == {k \in 1..Len(targets) : IndexOf(normalizedHeaders, targets[k]) # -1}
  IN  IF hits = {} THEN NoColumn
      ELSE IndexOf(normalizedHeaders, targets[CHOOSE k \in hits : \A h \in hits : k <= h])

\* the cell of the resolved column as the row holds it
getValUntrimmed(normalizedHeaders, row, possibleHeaders) ==
  LET idx == findColIdx(normalizedHeaders, possibleHeaders)
  IN  IF idx # NoColumn /\ idx + 1 <= Len(row) THEN row[idx + 1] ELSE <<>>

\* getVal: the trimmed cell of the resolved column, "" if there is none
getVal(normalizedHeaders, row, possibleHeaders) ==
  LET idx == findColIdx(normalizedHeaders, possibleHeaders)
  IN  IF idx # NoColumn /\ idx + 1 <= Len(row) /\ row[idx + 1] # <<>>
      THEN Trim(row[idx + 1])
      ELSE <<>>

RECURSIVE Decimal(_)
\* the decimal digits of a natural number
Decimal(n) ==
  IF n < 10 THEN <<DecimalDigits[n + 1]>>
  ELSE Decimal(n \div 10) \o <<DecimalDigits[(n % 10) + 1]>>

\* Date.now() - (index * 1000), read from the clock when the row is mapped
SyntheticDate(clock, rowIndex) == Time(clock - rowIndex * 1000)

\* `item-${index}`, counted from one
SyntheticHandleFromOne(rowIndex) == Chars("item-") \o Decimal(rowIndex + 1)

\* `item-${index}`
SyntheticHandle(rowIndex) == Chars("item-") \o Decimal(rowIndex)

\* the record the callback of data.map returns, from the cells it has read
RowProduct(rowIndex, clock, name, imageInfo, id, description, price, sku, collection, columnSize, rawDate) ==
  [threw |-> imageInfo.threw,
   product |->
     [handleId |-> IF id # <<>> THEN id ELSE SyntheticHandle(rowIndex),
      name |-> name,
      description |-> description,
      imageUrl |-> imageInfo.full,
      thumbnailUrl |-> imageInfo.thumb,
      price |-> price,
      sku |-> sku,
      collection |-> collection,
      size |-> IF columnSize = <<>> THEN extractSizeFromTitle(name) ELSE columnSize,
      dateUploaded |-> IF rawDate # <<>> THEN DateParse(rawDate)
                       ELSE SyntheticDate(clock, rowIndex)]]

\* the callback of data.map: the record of one row, or threw
MapRow(normalizedHeaders, row, rowIndex, clock) ==
  RowProduct(rowIndex, clock,
             getVal(normalizedHeaders, row, NameHeaders),
             transformImageUrl(getVal(normalizedHeaders, row, ImageHeaders)),
             getVal(normalizedHeaders, row, HandleIdHeaders),
             getVal(normalizedHeaders, row, DescriptionHeaders),
             getVal(normalizedHeaders, row, PriceHeaders),
             getVal(normalizedHeaders, row, SkuHeaders),
             getVal(normalizedHeaders, row, CollectionHeaders),
             getVal(normalizedHeaders, row, SizeHeaders),
             getVal(normalizedHeaders, row, DateHeaders))

\* the validity filter that asks for a name only
HasName(p) == p.name # <<>>

\* the predicate of the final filter: p.name && p.imageUrl
IsUsable(p) == p.name # <<>> /\ p.imageUrl # <<>>

(***************************************************************************)
(* Inputs of the tokenizer.                                                *)
(***************************************************************************)
Alphabet == {"a", " ", ",", "\"", "\n", "\r"}

SeqsUpTo(S, n) == UNION {[1..k -> S] : k \in 0..n}

\* free-form texts: every string over the alphabet up to MaxLen
FreeTexts == SeqsUpTo(Alphabet, MaxLen)

\* RFC 4180 quoting of a field: enclose in quotes, double each quote
RECURSIVE DoubleQuotes(_)
DoubleQuotes(c) ==
  IF c = <<>> THEN <<>>
  ELSE (IF Head(c) = "\"" THEN <<"\"", "\"">> ELSE <<Head(c)>>)
       \o DoubleQuotes(Tail(c))

QuoteField(c) == <<"\"">> \o DoubleQuotes(c) \o <<"\"">>

\* a well-formed file: one quoted field with the given content, optionally
\* between unquoted fields x and y and followed by a second line z
WellFormedSources ==
  [content : SeqsUpTo(Alphabet, MaxContentLen), pre : BOOLEAN,
   post : BOOLEAN, more : BOOLEAN, eol : {<<"\n">>, <<"\r">>, <<"\r", "\n">>}]

WellFormedText(w) ==
  (IF w.pre THEN Chars("x,") ELSE <<>>)
  \o QuoteField(w.content)
  \o (IF w.post THEN Chars(",y") ELSE <<>>)
  \o (IF w.more THEN w.eol \o Chars("z") ELSE <<>>)

NoSource == [content |-> <<>>, pre |-> FALSE, post |-> FALSE, more |-> FALSE,
             eol |-> <<>>]

(***************************************************************************)
(* The tokenizer as a state machine.                                       *)
(***************************************************************************)
Locals ==
  [i |-> i, inQuotes |-> inQuotes, currentField |-> currentField,
   currentRow |-> currentRow, rows |-> rows]

SetLocals(s) ==
  /\ i' = s.i
  /\ inQuotes' = s.inQuotes
  /\ currentField' = s.currentField
  /\ currentRow' = s.currentRow
  /\ rows' = s.rows

\* useState<GenerationStatus>({ step: 'idle', message: 'Engine Ready.' })
EngineReady == [step |-> "idle", message |-> Chars("Engine Ready.")]

\* useState<EngineResult | null>(null)
NoResult == [by |-> 0]

\* the studio before any action of the user
StudioStart ==
  /\ patternRef = FALSE
  /\ refinementPrompt = ""
  /\ result = NoResult
  /\ visions = <<>>
  /\ pending = {}
  /\ calls = 0

\* the host before any upload
HostStart ==
  /\ status = EngineReady
  /\ productDb = <<>>
  /\ StudioStart

ScanEntry ==
  /\ HostStart
  /\ pc = "scan"
  /\ i = 0
  /\ inQuotes = FALSE
  /\ currentField = <<>>
  /\ currentRow = <<>>
  /\ rows = <<>>
  /\ now = 0
  /\ index = 0
  /\ mapped = <<>>
  /\ out = <<>>

\* the tokenizer called on a free-form text or on a well-formed one
Init ==
  /\ \/ src = NoSource /\ text \in FreeTexts
     \/ src \in WellFormedSources /\ text = WellFormedText(src)
  /\ ScanEntry

\* the tokenizer called on a free-form text
InitFree ==
  /\ src = NoSource
  /\ text \in FreeTexts
  /\ ScanEntry

\* one iteration of the for loop
ScanChar ==
  /\ pc = "scan"
  /\ i < Len(text)
  /\ SetLocals(ScanIter(text, Locals))
  /\ UNCHANGED <<text, pc, src, normVars, hostVars>>

\* loop exit, flush and return
ScanReturn ==
  /\ pc = "scan"
  /\ ~(i < Len(text))
  /\ SetLocals(ScanFlush(Locals))
  /\ pc' = "done"
  /\ UNCHANGED <<text, src, normVars, hostVars>>

Next == ScanChar \/ ScanReturn

Spec == Init /\ [][Next]_vars

(***************************************************************************)
(* Inputs of the normalizer: a header line and data lines, joined by \n.   *)
(***************************************************************************)
HeaderLines == {"Name,Image,Date", "Title,Picture", "x,y", ""}

DataLines ==
  {"A,u",
   "B,u,1970-01-02",
   "A,u,zz",
   ",u",
   "A",
   " , ",
   "A,//c/u",
   "A,\"[]\"",
   "A,\"{\"\"id\"\":5}\"",
   "B,\"{\"\"url\"\":\"\"v\"\"}\""}

RECURSIVE JoinLines(_)
JoinLines(ls) ==
  IF ls = <<>> THEN <<>>
  ELSE IF Len(ls) = 1 THEN Chars(ls[1])
       ELSE Chars(ls[1]) \o <<"\n">> \o JoinLines(Tail(ls))

\* n data lines, alternately the lines d1 and d2
DataOf(d1, d2, n) == [k \in 1..n |-> IF k % 2 = 1 THEN d1 ELSE d2]

CatalogueTexts ==
  {JoinLines(<<h>> \o DataOf(d1, d2, n)) :
     h \in HeaderLines, d1 \in DataLines, d2 \in DataLines, n \in 0..MaxDataLines}

\* the steps the wall clock can take between two readings
ClockSteps == {500, 1500}

(***************************************************************************)
(* parseProductCSV as a state machine: the call is entered, maps the data  *)
(* rows one by one (each row reads the clock), and returns the filtered    *)
(* records; the same text is then parsed once more.                        *)
(***************************************************************************)
Returned(products) == [threw |-> FALSE, products |-> products]
Threw == [threw |-> TRUE, products |-> <<>>]

\* the call without its early return
NoEarlyReturn(rs) == FALSE

\* if (rows.length < 2) return []
TooFewRows(rs) == Len(rs) < 2

\* the state in which the host hands an uploaded text to parseProductCSV
CallEntry ==
  /\ HostStart
  /\ src = NoSource
  /\ pc = "entry"
  /\ i = 0
  /\ inQuotes = FALSE
  /\ currentField = <<>>
  /\ currentRow = <<>>
  /\ rows = <<>>
  /\ now = 0
  /\ index = 0
  /\ mapped = <<>>
  /\ out = <<>>

InitNorm == text \in CatalogueTexts /\ CallEntry

\* the call up to data.map: tokenize, return [] early, read the header row
\* (rows[0] of an empty list is undefined, and mapping over it throws)
AfterTokenize(rs) ==
  /\ index' = 0
  /\ mapped' = <<>>
  /\ IF TooFewRows(rs)
     THEN pc' = "returned" /\ out' = Append(out, Returned(<<>>))
     ELSE IF Len(rs) = 0
          THEN pc' = "threw" /\ out' = Append(out, Threw)
          ELSE pc' = "map" /\ out' = out

\* the call with the tokenizer run in one step
ParseEntry ==
  /\ pc = "entry"
  /\ rows' = parseCSVRows(text)
  /\ AfterTokenize(rows')
  /\ UNCHANGED <<text, src, scanVars, now, hostVars>>

\* the call after the tokenizer, run character by character, has returned
TokenizedEntry ==
  /\ pc = "done"
  /\ AfterTokenize(rows)
  /\ UNCHANGED <<text, src, scanVars, rows, now, hostVars>>

\* the callback of data.map on the next data row
MapNext ==
  /\ pc = "map"
  /\ index < Len(rows) - 1
  /\ LET r == MapRow(NormalizedHeaders(rows[1]), rows[index + 2], index, now)
     IN  IF r.threw
         THEN pc' = "threw" /\ out' = Append(out, Threw) /\ UNCHANGED <<index, mapped>>
         ELSE /\ mapped' = Append(mapped, r.product)
              /\ index' = index + 1
              /\ UNCHANGED <<pc, out>>
  /\ UNCHANGED <<text, src, scanVars, rows, now, hostVars>>

\* .filter(p => p.name && p.imageUrl) and the return
FilterReturn ==
  /\ pc = "map"
  /\ index = Len(rows) - 1
  /\ out' = Append(out, Returned(SelectSeq(mapped, IsUsable)))
  /\ pc' = "returned"
  /\ UNCHANGED <<text, src, scanVars, rows, now, index, mapped, hostVars>>

\* (p.dateUploaded || 0): NaN and 0 are falsy
DateKey(p) == IF p.dateUploaded.nan THEN 0 ELSE p.dateUploaded.ms

\* s, sorted newest first, with p put behind the records that are not older
InsertNewest(s, p) ==
  SubSeq(s, 1, Cardinality({k \in 1..Len(s) : DateKey(s[k]) >= DateKey(p)}))
    \o <<p>>
    \o SubSeq(s, Cardinality({k \in 1..Len(s) : DateKey(s[k]) >= DateKey(p)}) + 1, Len(s))

RECURSIVE SortNewest(_)
\* sortedAndFilteredDb with the empty search query and sortOption 'newest':
\* the stable sort by (b.dateUploaded || 0) - (a.dateUploaded || 0)
SortNewest(db) ==
  IF db = <<>> THEN <<>>
  ELSE InsertNewest(SortNewest(SubSeq(db, 1, Len(db) - 1)), db[Len(db)])

\* setStatus({ step: 'completed', message: `${products.length} items synced.` })
Synced(products) ==
  [step |-> "completed", message |-> Decimal(Len(products)) \o Chars(" items synced.")]

\* setStatus({ step: 'error', message: 'CSV Format Error.' })
FormatError == [step |-> "error", message |-> Chars("CSV Format Error.")]

\* the status reader.onload sets after the call of parseProductCSV
StatusAfter(outcome) == IF outcome.threw THEN FormatError ELSE Synced(outcome.products)

\* the product list with the records of the call added to it
ProductDbMerged(outcome, db) == IF outcome.threw THEN db ELSE db \o outcome.products

\* the product list after the call: setProductDb is not reached when it threw
ProductDbAfter(outcome, db) == IF outcome.threw THEN db ELSE outcome.products

\* reader.onload of handleCsvUpload after the call of parseProductCSV: the
\* rest of the try block, or the catch block
OnLoadEnd ==
  /\ pc \in {"returned", "threw"}
  /\ status' = StatusAfter(out[Len(out)])
  /\ productDb' = ProductDbAfter(out[Len(out)], productDb)
  /\ pc' = "idle"
  /\ UNCHANGED <<text, src, scanVars, rows, now, index, mapped, out, studioVars>>

\* the same file is uploaded a second time
CallAgain ==
  /\ pc = "idle"
  /\ Len(out) < 2
  /\ pc' = "entry"
  /\ UNCHANGED <<text, src, scanVars, rows, now, index, mapped, out, hostVars>>

\* time passes
Tick ==
  /\ \E d \in ClockSteps :
       /\ now + d <= MaxClock
       /\ now' = now + d
  /\ UNCHANGED <<text, pc, src, scanVars, rows, index, mapped, out, hostVars>>

NextNorm == ParseEntry \/ MapNext \/ FilterReturn \/ OnLoadEnd \/ CallAgain \/ Tick

SpecNorm == InitNorm /\ [][NextNorm]_vars

(***************************************************************************)
(* One upload of an export file, the clock standing still and the          *)
(* tokenizer run character by character: the files are a header line and   *)
(* data lines with the cell shapes the normalizer treats differently.      *)
(***************************************************************************)
FileHeaderLines ==
  {"Name,Image",
   "Product Name,Main-Image",
   "Title,Name,Image",
   "Id,Name,Image",
   "Id,Sku,Name,Image",
   "Name,Image,Size",
   "Name,Image,Price",
   "x,y"}

FileDataLines ==
  {"A,\"[\"\"https://cdn.example.com/a.jpg\"\",\"\"https://cdn.example.com/b.jpg\"\"]\"",
   "A,//cdn.example.com/a.jpg",
   "A,u2 ;v",
   "A,8bb231_abf910~mv2.jpg",
   "A,abcdef12_123456ab.png",
   "A,https://static.wixstatic.com/media/8bb231_abf910~mv2.jpg",
   "A,https://img.example.com/8bb231_abf910~mv2.jpg",
   "A,https://static.wixstatic.com/media/8bb231_abf910~mv2.jpg/v1/fill/x.jpg",
   "Relaxed Trouser 32W,u",
   "Pant 32w,u",
   "Pant 32/34,u",
   "Tee xl,u",
   "Plain 50,u",
   ",u",
   "7,B,u",
   ",S1,A,u",
   "B,u,\" $1,200.00 \"",
   "B,u,  ",
   "Pant 30,u,L"}

\* the lines that follow another data line
FileSecondLines ==
  {"A,//cdn.example.com/a.jpg",
   "A,abcdef12_123456ab.png",
   "7,B,u"}

FileTexts ==
  {JoinLines(<<h>> \o DataOf(d1, d2, n)) :
     h \in FileHeaderLines, d1 \in FileDataLines, d2 \in FileSecondLines,
     n \in 1..MaxDataLines}

InitFiles ==
  /\ src = NoSource
  /\ text \in FileTexts
  /\ ScanEntry

NextOnce ==
  ScanChar \/ ScanReturn \/ TokenizedEntry \/ MapNext \/ FilterReturn \/ OnLoadEnd

SpecFiles == InitFiles /\ [][NextOnce]_vars

(***************************************************************************)
(* Files uploaded one after another: handleCsvUpload hands each text to    *)
(* parseProductCSV and reader.onload stores what the call gives.           *)
(***************************************************************************)
UploadLines == {"A,u", "B,u", ",u", "A,\"{\"\"id\"\":5}\""}

UploadTexts ==
  {JoinLines(<<"Name,Image">> \o DataOf(d1, "A,u", n)) :
     d1 \in UploadLines, n \in 0..MaxDataLines}

InitUploads == text \in UploadTexts /\ CallEntry

\* handleCsvUpload on the next file
UploadNext ==
  /\ pc = "idle"
  /\ Len(out) < MaxUploads
  /\ text' \in UploadTexts
  /\ pc' = "entry"
  /\ UNCHANGED <<src, scanVars, rows, now, index, mapped, out, hostVars>>

NextUploads == ParseEntry \/ MapNext \/ FilterReturn \/ OnLoadEnd \/ UploadNext

SpecUploads == InitUploads /\ [][NextUploads]_vars

(***************************************************************************)
(* The studio: the buttons that call startProduction and the completion of *)
(* the calls.  A call awaits generateFashionPrompt and                     *)
(* synthesizeFashionImage; the calls that wait complete in any order.  An  *)
(* artifact is known by the call that made it.  No mask is drawn.          *)
(***************************************************************************)
QuickDirectives ==
  {"Sharpen the brand logos. Ensure the hem markers are clearly visible and precisely placed.",
   "Make the color significantly lighter and more vibrant, boost saturation.",
   "Change the shoes to high-end minimalist fashion sneakers."}

\* what the user types into the directive box
TypedDirectives == {"", "Make the logos sharper"}

\* the messages of the errors a call can end with
SynthesisErrors ==
  {"Synthesis failed: Empty image result.",
   "Synthesis Error: Check safety filters or prompt details."}

\* isEdit = !!(result && (finalRefinement || activeMask))
IsEdit(refinement) ==
  /\ result # NoResult
  /\ (IF refinement # "" THEN refinement ELSE refinementPrompt) # ""

\* setStatus({ step: 'rendering', message: ... })
Rendering(isEdit) ==
  [step |-> "rendering",
   message |-> IF isEdit THEN Chars("Processing Smart Refinement...")
               ELSE Chars("Synthesizing Vision...")]

\* startProduction up to its first await
startProduction(refinement) ==
  IF ~patternRef
  THEN UNCHANGED <<status, pending, calls>>
  ELSE /\ status' = Rendering(IsEdit(refinement))
       /\ calls' = calls + 1
       /\ pending' = pending \cup {calls + 1}

\* the parser at rest
NoUpload ==
  /\ text = <<>>
  /\ src = NoSource
  /\ pc = "idle"
  /\ i = 0
  /\ inQuotes = FALSE
  /\ currentField = <<>>
  /\ currentRow = <<>>
  /\ rows = <<>>
  /\ now = 0
  /\ index = 0
  /\ mapped = <<>>
  /\ out = <<>>

InitStudio == HostStart /\ NoUpload

\* ImageUploader onImageSelect={setPatternRef}
SelectPattern ==
  /\ ~patternRef
  /\ patternRef' = TRUE
  /\ UNCHANGED <<text, pc, src, scanVars, rows, normVars, status, productDb,
                 refinementPrompt, result, visions, pending, calls>>

\* the button Synthesize Vision, shown without a result and disabled without
\* a reference image or while rendering
SynthesizeVision ==
  /\ result = NoResult
  /\ ~(~patternRef \/ status.step = "rendering")
  /\ calls < MaxCalls
  /\ startProduction("")
  /\ UNCHANGED <<text, pc, src, scanVars, rows, normVars, productDb,
                 patternRef, refinementPrompt, result, visions>>

\* the button Apply Edit, shown with a result and disabled while rendering
ApplyEdit ==
  /\ result # NoResult
  /\ ~(status.step = "rendering")
  /\ calls < MaxCalls
  /\ startProduction("")
  /\ UNCHANGED <<text, pc, src, scanVars, rows, normVars, productDb,
                 patternRef, refinementPrompt, result, visions>>

\* a Quick Edit button, shown with a result: applyQuickDirective
QuickEdit ==
  /\ result # NoResult
  /\ calls < MaxCalls
  /\ \E directive \in QuickDirectives :
       /\ refinementPrompt' = directive
       /\ startProduction(directive)
  /\ UNCHANGED <<text, pc, src, scanVars, rows, normVars, productDb,
                 patternRef, result, visions>>

\* the button Clear Vision, shown with a result
ClearVision ==
  /\ result # NoResult
  /\ refinementPrompt' = ""
  /\ result' = NoResult
  /\ UNCHANGED <<text, pc, src, scanVars, rows, normVars, status, productDb,
                 patternRef, visions, pending, calls>>

\* the directive box, shown with a result
TypeDirective ==
  /\ result # NoResult
  /\ refinementPrompt' \in TypedDirectives \ {refinementPrompt}
  /\ UNCHANGED <<text, pc, src, scanVars, rows, normVars, status, productDb,
                 patternRef, result, visions, pending, calls>>

\* a call that waits gets its image: the rest of the try block
Synthesized ==
  /\ \E call \in pending :
       /\ result' = [by |-> call]
       /\ visions' = <<[by |-> call]>> \o visions
       /\ pending' = pending \ {call}
  /\ status' = [step |-> "completed", message |-> Chars("Vision Synthesized Successfully.")]
  /\ refinementPrompt' = ""
  /\ UNCHANGED <<text, pc, src, scanVars, rows, normVars, productDb, patternRef, calls>>

\* a call that waits fails: the catch block
SynthesisFailed ==
  /\ \E call \in pending : pending' = pending \ {call}
  /\ \E message \in SynthesisErrors : status' = [step |-> "error", message |-> Chars(message)]
  /\ UNCHANGED <<text, pc, src, scanVars, rows, normVars, productDb, patternRef,
                 refinementPrompt, result, visions, calls>>

NextStudio ==
  \/ SelectPattern \/ SynthesizeVision \/ ApplyEdit \/ QuickEdit
  \/ ClearVision \/ TypeDirective \/ Synthesized \/ SynthesisFailed

SpecStudio == InitStudio /\ [][NextStudio]_vars

\* the scan loop is sequential code: a step that can be taken is taken
LiveSpec == InitFree /\ [][Next]_vars /\ WF_vars(Next)

(***************************************************************************)
(* Reference reading of a text without quote characters: lines are cut at  *)
(* \n, \r and \r\n, fields at commas.                                       *)
(***************************************************************************)
HasChar(t, c) == \E k \in 1..Len(t) : t[k] = c

FirstIn(t, S) == CHOOSE k \in 1..Len(t) : t[k] \in S /\ \A j \in 1..(k - 1) : t[j] \notin S

RECURSIVE SplitFields(_)
SplitFields(line) ==
  IF ~HasChar(line, ",") THEN <<line>>
  ELSE LET k == FirstIn(line, {","})
       IN  <<SubSeq(line, 1, k - 1)>> \o SplitFields(SubSeq(line, k + 1, Len(line)))

RECURSIVE SplitLines(_)
SplitLines(t) ==
  IF ~HasChar(t, "\n") /\ ~HasChar(t, "\r") THEN <<t>>
  ELSE LET k == FirstIn(t, {"\n", "\r"})
           skip == IF t[k] = "\r" /\ k < Len(t) /\ t[k + 1] = "\n" THEN 2 ELSE 1
       IN  <<SubSeq(t, 1, k - 1)>> \o SplitLines(SubSeq(t, k + skip, Len(t)))

\* a field with a character that trimming leaves in place
Visible(field) == \E k \in 1..Len(field) : field[k] \notin WhiteSpace

NotBlankLine(fields) == \E k \in 1..Len(fields) : Visible(fields[k])

LinesOf(t) == LET ls == SplitLines(t) IN [k \in 1..Len(ls) |-> SplitFields(ls[k])]

RECURSIVE JoinWith(_, _)
JoinWith(parts, sep) ==
  IF parts = <<>> THEN <<>>
  ELSE IF Len(parts) = 1 THEN parts[1]
       ELSE parts[1] \o sep \o JoinWith(Tail(parts), sep)

\* fields joined with a comma, rows joined with the line terminator eol
Serialize(rs, eol) ==
  JoinWith([k \in 1..Len(rs) |-> JoinWith(rs[k], <<",">>)], eol)

RECURSIVE WithEol(_, _)
\* the text t, written with \n line ends, rewritten with the line end eol
WithEol(t, eol) ==
  IF t = <<>> THEN <<>>
  ELSE (IF Head(t) = "\n" THEN eol ELSE <<Head(t)>>) \o WithEol(Tail(t), eol)

LineEnds == {<<"\n">>, <<"\r">>, <<"\r", "\n">>}

(***************************************************************************)
(* Claims about the tokenizer.                                             *)
(***************************************************************************)
\* the rows a well-formed source stands for
SourceRows(w) ==
  LET first == (IF w.pre THEN <<Chars("x")>> ELSE <<>>)
               \o <<w.content>>
               \o (IF w.post THEN <<Chars("y")>> ELSE <<>>)
  IN  (IF NotBlankLine(first) THEN <<first>> ELSE <<>>)
      \o (IF w.more THEN << <<Chars("z")>> >> ELSE <<>>)

\* C6: for a well-formed text, the quoted field is returned as exactly its
\* content with doubled quotes decoded; commas and line terminators inside
\* the quotes start neither a field nor a row.
C6_QuotedFieldExact ==
  (pc = "done" /\ src # NoSource) => rows = SourceRows(src)

C6_Witness ==
  /\ pc = "done"
  /\ src # NoSource
  /\ src.pre /\ src.post /\ src.more
  /\ src.content = <<",", "\"", "\n">>
  /\ rows = << <<Chars("x"), <<",", "\"", "\n">>, Chars("y")>>, <<Chars("z")>> >>

\* C7: every iteration of the scan loop moves the index forward, within the
\* text, and the scan of any text, stray quotes included, ends with a result.
C7_ScanTerminates ==
  /\ [][(pc = "scan" /\ i < Len(text)) => (i' > i /\ i' <= Len(text))]_vars
  /\ <>(pc = "done")

C7_Witness ==
  pc = "done" /\ inQuotes /\ HasChar(text, "\"") /\ Len(rows) = 1

\* C8: every returned row has a field that is not blank; for a text without
\* quotes the result is the lines with a non-blank field, each with all its
\* fields in order, and the all-blank lines are left out.
C8_NonBlankRows ==
  /\ \A r \in 1..Len(rows) : NotBlankLine(rows[r])
  /\ (pc = "done" /\ ~HasChar(text, "\""))
        => rows = SelectSeq(LinesOf(text), NotBlankLine)

C8_Witness ==
  /\ pc = "done"
  /\ text = Chars(",a\n ,")
  /\ rows = << << <<>>, <<"a">> >> >>

\* C9: a text without quotes written with \n, with \r or with \r\n line ends
\* tokenizes to the same rows.
C9_LineEndsAgree ==
  (pc = "done" /\ ~HasChar(text, "\"") /\ ~HasChar(text, "\r"))
     => \A eol \in LineEnds : parseCSVRows(WithEol(text, eol)) = rows

C9_Witness ==
  /\ pc = "done"
  /\ text = Chars("a\n\na,")
  /\ rows = << <<Chars("a")>>, <<Chars("a"), <<>>>> >>
  /\ Len(parseCSVRows(WithEol(text, <<"\r", "\n">>))) = 2

\* C10: for a text without quotes, serializing the rows and tokenizing them
\* again gives the same rows.
C10_RoundTrip ==
  (pc = "done" /\ ~HasChar(text, "\""))
     => \A eol \in LineEnds : parseCSVRows(Serialize(rows, eol)) = rows

C10_Witness ==
  /\ pc = "done"
  /\ text = Chars("a,\r\na")
  /\ rows = << <<Chars("a"), <<>>>>, <<Chars("a")>> >>
  /\ Serialize(rows, <<"\n">>) = Chars("a,\na")

(***************************************************************************)
(* Claims about parseProductCSV.                                           *)
(***************************************************************************)
\* the outcome of the call that has just ended
LastOutcome == out[Len(out)]

CallEnded == pc \in {"returned", "threw"}

\* a record that passes the two validity gates
Kept(p) == p.name # <<>> /\ p.imageUrl # <<>>

\* C1: parseProductCSV never raises, whatever the image cells hold.
C1_NeverRaises == pc # "threw"

\* C2: two calls on the same text return identical record lists, whatever
\* time passes between or during the calls.
C2_Deterministic == Len(out) = 2 => out[1] = out[2]

\* C3: every returned record has a non-empty name and a non-empty imageUrl,
\* and a call returns no more records than there are data rows.
C3_UsableAndBounded ==
  \A c \in 1..Len(out) :
    /\ \A k \in 1..Len(out[c].products) :
         out[c].products[k].name # <<>> /\ out[c].products[k].imageUrl # <<>>
    /\ out[c].products # <<>> => Len(out[c].products) <= Len(rows) - 1

C3_Witness ==
  /\ pc = "returned"
  /\ Len(rows) = 3
  /\ Len(mapped) = 2
  /\ mapped[1].name # <<>> /\ mapped[1].imageUrl = <<>>
  /\ Len(LastOutcome.products) = 1
  /\ LastOutcome.products[1].name = <<"B">>

\* C4: the output is exactly the records of the data rows, in source order,
\* without those whose name or imageUrl is empty: no record with a name and
\* an imageUrl is dropped for another reason.
C4_ExactlyFilteredRows ==
  (CallEnded /\ Len(rows) >= 2)
     => LastOutcome.products = SelectSeq(mapped, Kept)

\* C4, for the calls that return: the output is the filtered records
C4_WhenReturned ==
  (pc = "returned" /\ Len(rows) >= 2)
     => /\ Len(mapped) = Len(rows) - 1
        /\ LastOutcome.products = SelectSeq(mapped, Kept)

\* C5: a text that tokenizes to fewer than two rows gives the empty list,
\* and no error.
C5_TooFewRowsEmpty ==
  (CallEnded /\ Len(rows) < 2) => LastOutcome = Returned(<<>>)

C5_Witness ==
  /\ pc = "returned"
  /\ text = Chars("Name,Image,Date")
  /\ Len(rows) = 1
  /\ out = <<Returned(<<>>)>>

\* the readings the wall clock can have shown up to now
ClockReadings == {c \in 0..now : c % 500 = 0}

\* the normalized header row of the running call
HeadersNow == NormalizedHeaders(rows[1])

\* the date cell of data row k (1-based), as getVal reads it
DateCell(k) == getVal(HeadersNow, rows[k + 1], DateHeaders)

\* now - rowIndex * 1000 for some reading of the clock during the call
IsSynthetic(d, k) ==
  ~d.nan /\ \E c \in ClockReadings : d.ms = c - (k - 1) * 1000

\* C16: dateUploaded is never NaN: it is the timestamp of the date cell when
\* that parses as a date, and now - rowIndex * 1000 in every other case.
C16_IntegerTimestamp ==
  pc \in {"map", "returned"} =>
    \A k \in 1..Len(mapped) :
      IF DateCell(k) # <<>> /\ ~DateParse(DateCell(k)).nan
      THEN mapped[k].dateUploaded = DateParse(DateCell(k))
      ELSE IsSynthetic(mapped[k].dateUploaded, k)

\* C17: without a date column the dates of one call strictly decrease in row
\* order, however the clock moves, so the newest-first sort of the returned
\* records is the file order.
C17_NewestFirstIsFileOrder ==
  (pc = "returned" /\ Len(rows) >= 2 /\ findColIdx(HeadersNow, DateHeaders) = NoColumn) =>
    /\ \A j \in 1..Len(LastOutcome.products) : \A k \in 1..Len(LastOutcome.products) :
         j < k => DateKey(LastOutcome.products[j]) > DateKey(LastOutcome.products[k])
    /\ SortNewest(LastOutcome.products) = LastOutcome.products

\* the newest-first sort alone
C17_SortIsFileOrder ==
  (pc = "returned" /\ Len(rows) >= 2 /\ findColIdx(HeadersNow, DateHeaders) = NoColumn) =>
    SortNewest(LastOutcome.products) = LastOutcome.products

\* C19: an upload that yields zero usable records leaves the host in the
\* error status with the format-error message.
C19_ZeroRecordsIsError ==
  (pc = "idle" /\ ~LastOutcome.threw /\ LastOutcome.products = <<>>)
     => status = FormatError

(***************************************************************************)
(* Claims about the records of one file.                                   *)
(***************************************************************************)
\* the call has read the header row and is mapping or has returned
Mapping == pc \in {"map", "returned"} /\ Len(rows) >= 2

\* the cell of data row k (1-based) the field with the given spellings reads
CellOf(k, possibleHeaders) == getVal(HeadersNow, rows[k + 1], possibleHeaders)

IsAlnum(c) == IsUpper(c) \/ IsLower(c) \/ c \in Digits

RECURSIVE Interleave(_, _)
\* h with the separator c after each of its characters
Interleave(h, c) ==
  IF h = <<>> THEN <<>> ELSE <<h[1], c>> \o Interleave(Tail(h), c)

\* ways of spelling the header cell h differently: letter case changed, and
\* spaces, underscores, hyphens and other punctuation inserted or removed
Respell(h, r) ==
  CASE r = 1 -> ToUpperCase(h)
    [] r = 2 -> ToLowerCase(h)
    [] r = 3 -> Interleave(h, "_")
    [] r = 4 -> <<" ">> \o h \o <<"-">>
    [] r = 5 -> SelectSeq(h, IsAlnum)
    [] r = 6 -> ToUpperCase(Interleave(h, " "))
    [] r = 7 -> <<".">> \o SelectSeq(h, IsAlnum) \o <<"!", "?">>

Respellings == 1..7

\* the header row with every cell, or the first cell only, spelled differently
HeaderSpellings(header) ==
  {[k \in 1..Len(header) |-> Respell(header[k], r)] : r \in Respellings}
    \cup {[k \in 1..Len(header) |-> IF k = 1 THEN Respell(header[k], r) ELSE header[k]] :
            r \in Respellings}

\* C11: a file whose header cells are spelled with other letter case and
\* other non-alphanumeric characters gives the same records.
C11_HeaderSpellingInvariant ==
  Mapping =>
    \A header \in HeaderSpellings(rows[1]) : \A k \in 1..Len(mapped) :
      MapRow(NormalizedHeaders(header), rows[k + 1], k - 1, now).product = mapped[k]

C11_Witness ==
  /\ pc = "returned"
  /\ rows[1] = <<Chars("Product Name"), Chars("Main-Image")>>
  /\ <<Chars("PRODUCT NAME"), Chars("MAIN-IMAGE")>> \in HeaderSpellings(rows[1])
  /\ <<Chars("ProductName"), Chars("MainImage")>> \in HeaderSpellings(rows[1])
  /\ Len(LastOutcome.products) = 2
  /\ LastOutcome.products[1].name = Chars("Relaxed Trouser 32W")
  /\ LastOutcome.products[2].imageUrl = Chars("https://cdn.example.com/a.jpg")

\* the image cell is the text of an array whose first element is a web address
FirstUrlOf(cell) == JsonParse(cell).v.items[1].s

IsUrlArray(cell) ==
  /\ StartsWith(cell, <<"[">>)
  /\ JsonParse(cell).ok
  /\ JsonParse(cell).v.t = "array"
  /\ JsonParse(cell).v.items # <<>>
  /\ JsonParse(cell).v.items[1].t = "string"
  /\ StartsWith(JsonParse(cell).v.items[1].s, Chars("http"))

\* C12: an image cell that is an array of URL strings resolves to the first
\* element of the array.
C12_FirstArrayElement ==
  Mapping =>
    \A k \in 1..Len(mapped) :
      IsUrlArray(CellOf(k, ImageHeaders)) =>
        mapped[k].imageUrl = FirstUrlOf(CellOf(k, ImageHeaders))

\* no header cell is an accepted spelling of any field
NoHeaderMapped ==
  \A v \in 1..Len(AllHeaders) : findColIdx(HeadersNow, AllHeaders[v]) = NoColumn

\* C13: under a header row that matches no vocabulary entry, a row with a
\* non-empty first cell and a second cell starting with // is returned, its
\* imageUrl the second cell behind https:.
C13_UnmappedHeadersPositional ==
  (pc = "returned" /\ Len(rows) >= 2 /\ NoHeaderMapped) =>
    \A k \in 2..Len(rows) :
      (Len(rows[k]) >= 2 /\ Trim(rows[k][1]) # <<>> /\ StartsWith(rows[k][2], Chars("//")))
        => \E j \in 1..Len(LastOutcome.products) :
             LastOutcome.products[j].imageUrl = Chars("https:") \o rows[k][2]

\* the contiguous parts of a cell
PartsOf(cell) ==
  {SubSeq(cell, a, b) : a \in 1..Len(cell), b \in 1..Len(cell)} \ {<<>>}

\* a bare image value: no structured data, no list, no web address
IsBare(cell) ==
  /\ cell # <<>>
  /\ cell[1] \notin {"[", "{"}
  /\ \A k \in 1..Len(cell) : cell[k] \notin {";", "|", ","}
  /\ ~StartsWith(cell, Chars("http"))
  /\ ~StartsWith(cell, Chars("//"))

\* C14: a bare image value recognised as a media identifier gives the media
\* address of the identifier as imageUrl and its 400 x 400 fill thumbnail as
\* thumbnailUrl.
C14_MediaIdentifierUrls ==
  Mapping =>
    \A k \in 1..Len(mapped) :
      /\ (IsBare(CellOf(k, ImageHeaders)) /\ getWixImageId(CellOf(k, ImageHeaders)).found)
           => \E id \in PartsOf(CellOf(k, ImageHeaders)) :
                /\ mapped[k].imageUrl = Chars("https://static.wixstatic.com/media/") \o id
                /\ mapped[k].thumbnailUrl =
                     Chars("https://static.wixstatic.com/media/") \o id
                       \o Chars("/v1/fill/w_400,h_400,al_c,q_80/thumbnail.jpg")
      /\ CellOf(k, ImageHeaders) = Chars("8bb231_abf910~mv2.jpg")
           => mapped[k].imageUrl =
                Chars("https://static.wixstatic.com/media/8bb231_abf910~mv2.jpg")

C14_Witness ==
  /\ pc = "returned"
  /\ Len(rows) = 3
  /\ rows[2][2] = Chars("8bb231_abf910~mv2.jpg")
  /\ rows[3][2] = Chars("abcdef12_123456ab.png")
  /\ Len(LastOutcome.products) = 2
  /\ LastOutcome.products[1].thumbnailUrl =
       Chars("https://static.wixstatic.com/media/8bb231_abf910~mv2.jpg/v1/fill/w_400,h_400,al_c,q_80/thumbnail.jpg")
  /\ LastOutcome.products[2].imageUrl =
       Chars("https://static.wixstatic.com/media/abcdef12_123456ab.png")

\* the tokens of a name: the maximal runs of letters, digits and underscores
IsTokenChar(c) == IsAlnum(c) \/ c = "_"

Tokens(name) ==
  {t \in (1..Len(name)) \X (1..Len(name)) :
     /\ t[1] <= t[2]
     /\ \A p \in t[1]..t[2] : IsTokenChar(name[p])
     /\ t[1] = 1 \/ ~IsTokenChar(name[t[1] - 1])
     /\ t[2] = Len(name) \/ ~IsTokenChar(name[t[2] + 1])}

TokenText(name, t) == SubSeq(name, t[1], t[2])

\* the number two decimal digits write
TwoDigits(a, b) ==
  10 * (CHOOSE d \in 0..9 : DecimalDigits[d + 1] = a)
    + (CHOOSE d \in 0..9 : DecimalDigits[d + 1] = b)

\* a two-digit waist size in 24..48, optionally followed by one W or w
IsWaistText(w) ==
  /\ Len(w) \in {2, 3}
  /\ w[1] \in Digits /\ w[2] \in Digits
  /\ TwoDigits(w[1], w[2]) \in 24..48
  /\ Len(w) = 3 => w[3] \in {"W", "w"}

WaistTokens(name) == {t \in Tokens(name) : IsWaistText(TokenText(name, t))}

LetterTokens(name) ==
  {t \in Tokens(name) :
     ToUpperCase(TokenText(name, t)) \in {Chars(LetterSizes[x]) : x \in 1..Len(LetterSizes)}}

\* the first waist token of a name that has one
FirstWaistToken(name) ==
  TokenText(name, CHOOSE t \in WaistTokens(name) :
                    \A u \in WaistTokens(name) : t[1] <= u[1])

\* a name without size tokens gives the empty size
NoTokenNoSize(k) ==
  (WaistTokens(mapped[k].name) = {} /\ LetterTokens(mapped[k].name) = {})
     => mapped[k].size = <<>>

\* C15 as stated: without a value in a size column, the size is the waist
\* token of the name as the name spells it, and empty without any size token.
C15_WaistTokenVerbatim ==
  Mapping =>
    \A k \in 1..Len(mapped) :
      CellOf(k, SizeHeaders) = <<>> =>
        /\ WaistTokens(mapped[k].name) # {}
             => mapped[k].size = FirstWaistToken(mapped[k].name)
        /\ NoTokenNoSize(k)

\* C15, amended: without a value in a size column, the size is the first
\* waist token of the name in upper case, and empty without any size token.
C15_WaistTokenUpperCase ==
  Mapping =>
    \A k \in 1..Len(mapped) :
      CellOf(k, SizeHeaders) = <<>> =>
        /\ WaistTokens(mapped[k].name) # {}
             => mapped[k].size = ToUpperCase(FirstWaistToken(mapped[k].name))
        /\ NoTokenNoSize(k)

C15_Witness ==
  /\ pc = "returned"
  /\ Len(LastOutcome.products) = 2
  /\ LastOutcome.products[1].name = Chars("Relaxed Trouser 32W")
  /\ LastOutcome.products[1].size = Chars("32W")
  /\ LastOutcome.products[2].name = <<"A">>
  /\ LastOutcome.products[2].size = <<>>

\* item-<k> for the first positions k
ItemNames == <<"item-0", "item-1", "item-2", "item-3", "item-4">>

\* C18: handleId is never empty; without a value in an identifier column it
\* is item-<k>, k the zero-based position of the row among the data rows,
\* rows the filter drops counted.
C18_HandleIdByRowPosition ==
  /\ Mapping =>
       \A k \in 1..Len(mapped) :
         /\ mapped[k].handleId # <<>>
         /\ mapped[k].handleId =
              IF CellOf(k, HandleIdHeaders) = <<>>
              THEN Chars(ItemNames[k])
              ELSE CellOf(k, HandleIdHeaders)
  /\ pc = "returned" =>
       \A j \in 1..Len(LastOutcome.products) :
         \E k \in 1..Len(mapped) : LastOutcome.products[j] = mapped[k]

C18_Witness ==
  /\ pc = "returned"
  /\ Len(mapped) = 2
  /\ mapped[1].name = <<>>
  /\ mapped[1].handleId = Chars("item-0")
  /\ Len(LastOutcome.products) = 1
  /\ LastOutcome.products[1].handleId = Chars("item-1")

\* the smallest header position whose normalized header is an accepted
\* spelling of the field, zero-based; NoColumn if there is none
FirstPositional(headers, possible) ==
  IF \E j \in 1..Len(headers) : \E x \in 1..Len(possible) :
       headers[j] = NormalizeHeader(Chars(possible[x]))
  THEN (CHOOSE j \in 1..Len(headers) :
          /\ \E x \in 1..Len(possible) : headers[j] = NormalizeHeader(Chars(possible[x]))
          /\ \A h \in 1..(j - 1) : \A x \in 1..Len(possible) :
               headers[h] # NormalizeHeader(Chars(possible[x]))) - 1
  ELSE NoColumn

\* the trimmed cell of a row at a zero-based column, "" if there is none
CellAt(row, idx) ==
  IF idx # NoColumn /\ idx + 1 <= Len(row) THEN Trim(row[idx + 1]) ELSE <<>>

\* C20: every field resolves to the first header position that holds one of
\* its accepted spellings, and to the empty string if no header does.
C20_FirstPositionalMatch ==
  Mapping =>
    /\ \A v \in 1..Len(AllHeaders) :
         findColIdx(HeadersNow, AllHeaders[v]) = FirstPositional(HeadersNow, AllHeaders[v])
    /\ \A k \in 1..Len(mapped) :
         mapped[k].name = CellAt(rows[k + 1], FirstPositional(HeadersNow, NameHeaders))

(***************************************************************************)
(* The image value of a cell that holds no structured data: its first      *)
(* segment before a list separator, without the surrounding white space.   *)
(***************************************************************************)
ListSeparators == {";", "|", ","}

\* the cell without leading and trailing white space
StripBlank(cell) ==
  IF Visible(cell)
  THEN SubSeq(cell,
              CHOOSE a \in 1..Len(cell) :
                cell[a] \notin WhiteSpace /\ \A j \in 1..(a - 1) : cell[j] \in WhiteSpace,
              CHOOSE b \in 1..Len(cell) :
                cell[b] \notin WhiteSpace /\ \A j \in (b + 1)..Len(cell) : cell[j] \in WhiteSpace)
  ELSE <<>>

FirstSegment(cell) ==
  IF \E k \in 1..Len(cell) : cell[k] \in ListSeparators
  THEN StripBlank(SubSeq(cell, 1, FirstIn(cell, ListSeparators) - 1))
  ELSE StripBlank(cell)

\* the cell is not the text of structured data
IsPlain(cell) == cell # <<>> /\ StripBlank(cell) # <<>> /\ StripBlank(cell)[1] \notin {"[", "{"}

IsUrl(v) == StartsWith(v, Chars("http")) \/ StartsWith(v, Chars("//"))

\* the value with https: before a leading //
WithProtocol(v) == IF StartsWith(v, Chars("//")) THEN Chars("https:") \o v ELSE v

\* the identifier the value is recognised by, if it is
ExtractedId(v) == getWixImageId(WithProtocol(v))

Recognised(v) == ExtractedId(v).found /\ ExtractedId(v).id # <<>>

\* the image value of data row k
ImageValue(k) == FirstSegment(CellOf(k, ImageHeaders))

\* C21 as stated: an image value recognised as a media reference, a web
\* address included, gives the media address of its identifier as imageUrl
\* and the 400 x 400 fill thumbnail of the identifier as thumbnailUrl.
C21_CanonicalFromIdentifier ==
  Mapping =>
    \A k \in 1..Len(mapped) :
      (IsPlain(CellOf(k, ImageHeaders)) /\ Recognised(ImageValue(k))) =>
        /\ mapped[k].imageUrl =
             Chars("https://static.wixstatic.com/media/") \o ExtractedId(ImageValue(k)).id
        /\ mapped[k].thumbnailUrl =
             Chars("https://static.wixstatic.com/media/") \o ExtractedId(ImageValue(k)).id
               \o Chars("/v1/fill/w_400,h_400,al_c,q_80/thumbnail.jpg")

\* C21, amended: the thumbnailUrl of a recognised image value is the
\* 400 x 400 fill thumbnail of its identifier; the imageUrl is the media
\* address of the identifier for a bare value, and for a web address it is
\* the address itself, behind https: where it starts with //.
C21_UrlKeptAsImageUrl ==
  Mapping =>
    \A k \in 1..Len(mapped) :
      (IsPlain(CellOf(k, ImageHeaders)) /\ Recognised(ImageValue(k))) =>
        /\ mapped[k].imageUrl =
             IF IsUrl(ImageValue(k))
             THEN WithProtocol(ImageValue(k))
             ELSE Chars("https://static.wixstatic.com/media/")
                    \o ExtractedId(ImageValue(k)).id
        /\ mapped[k].thumbnailUrl =
             Chars("https://static.wixstatic.com/media/") \o ExtractedId(ImageValue(k)).id
               \o Chars("/v1/fill/w_400,h_400,al_c,q_80/thumbnail.jpg")

C21_Witness ==
  /\ pc = "returned"
  /\ Len(rows) = 3
  /\ rows[2][2] = Chars("https://img.example.com/8bb231_abf910~mv2.jpg")
  /\ rows[3][2] = Chars("abcdef12_123456ab.png")
  /\ Len(LastOutcome.products) = 2
  /\ LastOutcome.products[1].imageUrl = Chars("https://img.example.com/8bb231_abf910~mv2.jpg")
  /\ LastOutcome.products[1].thumbnailUrl =
       Chars("https://static.wixstatic.com/media/8bb231_abf910~mv2.jpg/v1/fill/w_400,h_400,al_c,q_80/thumbnail.jpg")
  /\ LastOutcome.products[2].imageUrl =
       Chars("https://static.wixstatic.com/media/abcdef12_123456ab.png")

\* the path segments of the value that contain the marker ~mv2
MarkerSegments(v) ==
  {p \in PartsOf(v) :
     /\ \A j \in 1..Len(p) : p[j] # "/"
     /\ \E a \in 1..Len(v) :
          /\ a + Len(p) - 1 <= Len(v)
          /\ SubSeq(v, a, a + Len(p) - 1) = p
          /\ (a = 1 \/ v[a - 1] = "/")
          /\ (a + Len(p) - 1 = Len(v) \/ v[a + Len(p)] = "/")
     /\ \E a \in 1..Len(p) : a + 3 <= Len(p) /\ SubSeq(p, a, a + 3) = Chars("~mv2")}

\* the segment up to its first ? or #
BeforeSuffix(p) ==
  IF \E k \in 1..Len(p) : p[k] \in {"?", "#"}
  THEN SubSeq(p, 1, FirstIn(p, {"?", "#"}) - 1)
  ELSE p

\* C22: the thumbnailUrl of an image value that contains the marker ~mv2
\* embeds a path segment of the value that contains the marker, without its
\* ? or # suffix.
C22_IdentifierIsMarkerSegment ==
  Mapping =>
    \A k \in 1..Len(mapped) :
      (IsPlain(CellOf(k, ImageHeaders)) /\ MarkerSegments(ImageValue(k)) # {}) =>
        \E p \in MarkerSegments(ImageValue(k)) :
          mapped[k].thumbnailUrl =
            Chars("https://static.wixstatic.com/media/") \o BeforeSuffix(p)
              \o Chars("/v1/fill/w_400,h_400,al_c,q_80/thumbnail.jpg")

\* the columns whose header is an accepted spelling of the identifier
IdentifierColumns ==
  {j \in 1..Len(HeadersNow) :
     HeadersNow[j] \in {Chars("handleid"), Chars("id"), Chars("productid"),
                        Chars("handle"), Chars("sku")}}

\* the identifier columns in which data row k has a value
FilledIdentifierColumns(k) ==
  {j \in IdentifierColumns : j <= Len(rows[k + 1]) /\ StripBlank(rows[k + 1][j]) # <<>>}

\* C23: handleId is item-<k> only for a row with no value in any identifier
\* column; a row with a value in some identifier column gets the value of
\* one of them.
C23_SyntheticOnlyWithoutIdentifier ==
  Mapping =>
    \A k \in 1..Len(mapped) :
      FilledIdentifierColumns(k) # {} =>
        \E j \in FilledIdentifierColumns(k) :
          mapped[k].handleId = StripBlank(rows[k + 1][j])

\* the slash-joined dual waists NN/NN of a name, both numbers in 24..48
DualWaists(name) ==
  {SubSeq(name, t[1], u[2]) : t \in WaistTokens(name), u \in WaistTokens(name)} \cap
  {SubSeq(name, a, a + 4) : a \in {a \in 1..Len(name) : a + 4 <= Len(name) /\ name[a + 2] = "/"}}

\* C24: without a value in a size column, a name with a slash-joined dual
\* waist NN/NN gives the whole NN/NN as size.
C24_DualWaistWhole ==
  Mapping =>
    \A k \in 1..Len(mapped) :
      (CellOf(k, SizeHeaders) = <<>> /\ DualWaists(mapped[k].name) # {}) =>
        mapped[k].size \in DualWaists(mapped[k].name)

\* C25: the end of the input ends the last line as a line feed does: a text
\* whose scan ends outside quotes gives the rows the text followed by a line
\* feed gives.
C25_EndOfInputEndsLine ==
  (pc = "done" /\ ~inQuotes) => rows = parseCSVRows(text \o <<"\n">>)

C25_Witness ==
  /\ pc = "done"
  /\ ~inQuotes
  /\ text = Chars("a,")
  /\ rows = <<<<Chars("a"), <<>>>>>>

\* the cell is empty or does not start as structured data does
IsUnstructured(cell) == StripBlank(cell) = <<>> \/ StripBlank(cell)[1] \notin {"[", "{"}

\* C26: an image value that is not recognised as a media reference gives the
\* same imageUrl and thumbnailUrl: its first segment (the text before the
\* first list separator, without surrounding white space) as it is, behind
\* https: where it starts with //.
C26_UnrecognisedValueAsIs ==
  Mapping =>
    \A k \in 1..Len(mapped) :
      (IsUnstructured(CellOf(k, ImageHeaders)) /\ ~Recognised(ImageValue(k))) =>
        /\ mapped[k].imageUrl =
             IF StartsWith(ImageValue(k), Chars("//"))
             THEN Chars("https:") \o ImageValue(k)
             ELSE ImageValue(k)
        /\ mapped[k].thumbnailUrl = mapped[k].imageUrl

C26_Witness ==
  /\ pc = "returned"
  /\ Len(rows) = 3
  /\ rows[2][2] = Chars("u2 ;v")
  /\ rows[3][2] = Chars("//cdn.example.com/a.jpg")
  /\ Len(LastOutcome.products) = 2
  /\ LastOutcome.products[1].imageUrl = Chars("u2")
  /\ LastOutcome.products[1].thumbnailUrl = Chars("u2")
  /\ LastOutcome.products[2].imageUrl = Chars("https://cdn.example.com/a.jpg")
  /\ LastOutcome.products[2].thumbnailUrl = Chars("https://cdn.example.com/a.jpg")

\* the value of a field in data row k: nothing if no column is resolved or
\* the row ends before it, else the cell without surrounding white space
FieldOf(k, possibleHeaders) ==
  IF \/ findColIdx(HeadersNow, possibleHeaders) = NoColumn
     \/ findColIdx(HeadersNow, possibleHeaders) + 1 > Len(rows[k + 1])
  THEN <<>>
  ELSE StripBlank(rows[k + 1][findColIdx(HeadersNow, possibleHeaders) + 1])

\* C27: field lookup raises no error on a ragged row: a row that ends before
\* the resolved column, or whose cell there is empty or white space, has the
\* empty string as the field, and any other row has the cell without its
\* leading and trailing white space.
C27_RaggedRowLookup ==
  Mapping =>
    \A k \in 1..Len(mapped) :
      /\ mapped[k].name = FieldOf(k, NameHeaders)
      /\ mapped[k].description = FieldOf(k, DescriptionHeaders)
      /\ mapped[k].price = FieldOf(k, PriceHeaders)
      /\ mapped[k].sku = FieldOf(k, SkuHeaders)
      /\ mapped[k].collection = FieldOf(k, CollectionHeaders)

C27_Witness ==
  /\ pc = "returned"
  /\ Len(rows) = 3
  /\ rows[1] = <<Chars("Name"), Chars("Image"), Chars("Price")>>
  /\ Len(rows[2]) = 3
  /\ rows[2][3] = Chars(" $1,200.00 ")
  /\ Len(rows[3]) = 2
  /\ Len(LastOutcome.products) = 2
  /\ LastOutcome.products[1].price = Chars("$1,200.00")
  /\ LastOutcome.products[2].price = <<>>

(***************************************************************************)
(* Uploads and the studio.                                                 *)
(***************************************************************************)
\* the calls of parseProductCSV so far that returned
ReturnedCalls == {j \in 1..Len(out) : ~out[j].threw}

\* the records of the last call that returned, none before the first
LastReturnedProducts ==
  IF ReturnedCalls = {} THEN <<>>
  ELSE out[CHOOSE j \in ReturnedCalls : \A h \in ReturnedCalls : h <= j].products

\* C28: after an upload the product list is exactly the records of the last
\* call of parseProductCSV that returned (as it was before, if the call of
\* this upload threw), and a call that threw leaves the status error with
\* the message CSV Format Error.
C28_UploadReplacesOrKeeps ==
  pc = "idle" =>
    /\ productDb = LastReturnedProducts
    /\ out[Len(out)].threw =>
         status = [step |-> "error", message |-> Chars("CSV Format Error.")]

C28_Witness ==
  /\ pc = "idle"
  /\ Len(out) = 2
  /\ ~out[1].threw
  /\ Len(out[1].products) = 2
  /\ out[2].threw
  /\ productDb = out[1].products
  /\ status.step = "error"

\* C29: at most one call of startProduction waits for its image.
C29_SingleFlight == Cardinality(pending) <= 1

====
